---------------------------- MODULE Spec2Model ----------------------------
(***************************************************************************)
(* Webhook Actions (custom_components/webhook_actions): the configuration  *)
(* resolver over the declarative (YAML) list and the editable (UI) store,  *)
(* and the webhook executor: request building, template rendering, the     *)
(* HTTP attempt with its response-size cap, the retry loop with backoff    *)
(* and the success/error events.                                           *)
(***************************************************************************)
EXTENDS Integers, Sequences, FiniteSets, TLC

VARIABLES
    yaml_config,   \* WebhookConfigManager.yaml_config[CONF_WEBHOOKS]: the declarative list
    data,          \* WebhookStorage.data[CONF_WEBHOOKS]: id -> record, in memory
    persisted,     \* what Store.async_save last wrote
    context,       \* the state the template engine renders against
    active,        \* the service calls this behaviour may start
    call,          \* per service call: position, locals of execute, and its history
    saving,        \* WebhookStorage.async_save calls awaited by an add or a remove
    last_op        \* history: the latest add or remove and the resolver's view before it

vars == <<yaml_config, data, persisted, context, active, call, saving, last_op>>

-----------------------------------------------------------------------------
(* Bounds of the model *)

MaxYaml == 2        \* longest declarative list drawn in Init
NumCalls == 2       \* service-call slots
MaxWidth == 2       \* longest sequence payload drawn
MaxDepth == 2       \* deepest nesting of a payload drawn
MaxSaving == 2      \* most adds and removes awaiting their save at once

(* Program constants (const.py) *)

DEFAULT_TIMEOUT == 10
DEFAULT_RETRY_ATTEMPTS == 3
DEFAULT_RETRY_BACKOFF == 2
MAX_RESPONSE_SIZE == 1024 * 1024

HTTP_METHODS == {"GET", "POST", "PUT", "PATCH", "DELETE", "HEAD", "OPTIONS"}

None == "<None>"

WebhookIds == {"a", "b"}
CallIds == 1..NumCalls

-----------------------------------------------------------------------------
(* Webhook definitions: Python dicts, i.e. functions from keys to values.  *)

EmptyDict == [k \in {} |-> None]

\* None where the code expects a dict
NoneDict == [is_none |-> TRUE]

\* Python truthiness of "a dict or None": None and {} are falsy
Truthy(d) == d # NoneDict /\ DOMAIN d # {}

\* dict.get(key, default)
Get(d, key, default) == IF key \in DOMAIN d THEN d[key] ELSE default

\* Records the declarative source can hold (WEBHOOK_SCHEMA: webhook_id, url
\* required; retry_attempts defaulted by the schema; no retry_backoff key).
DeclarativeRecords ==
    { [webhook_id |-> "a", url |-> "{{ x }}", retry_attempts |-> 3],
      [webhook_id |-> "a", url |-> "http://a2", retry_attempts |-> 2],
      [webhook_id |-> "b", url |-> "{{ oops", retry_attempts |-> 1] }

\* Records async_add_webhook can be handed for an id (entry.data of a config
\* entry, or any dict through the manager's API; the empty dict included).
StoreRecords(id) ==
    IF id = "a"
    THEN { [webhook_id |-> "a", url |-> "http://ui-a"],
           EmptyDict }
    ELSE { [webhook_id |-> "b", url |-> "{{ x }}", retry_attempts |-> 0],
           [webhook_id |-> "b", url |-> "http://ui-b", retry_attempts |-> 2,
            retry_backoff |-> 3] }

\* the declarative lists drawn: up to MaxYaml records, no record twice
\* (two records with the same webhook_id included)
YamlLists ==
    UNION { { list \in [1..n -> DeclarativeRecords] :
                \A i, j \in 1..n : i # j => list[i] # list[j] } : n \in 0..MaxYaml }

-----------------------------------------------------------------------------
(* WebhookStorage (storage.py) *)

StorageGetWebhook(id) == IF id \in DOMAIN data THEN data[id] ELSE NoneDict

StorageGetAllWebhooks == data

StorageWebhookExists(id) == id \in DOMAIN data

\* mutant: the new record is laid over the stored one, key by key
AddWebhookDataMerges(d, id, config) ==
    [k \in DOMAIN d \cup {id} |->
        IF k # id THEN d[k]
        ELSE IF id \in DOMAIN d
             THEN [f \in DOMAIN d[id] \cup DOMAIN config |->
                      IF f \in DOMAIN config THEN config[f] ELSE d[id][f]]
             ELSE config]

\* self.data[CONF_WEBHOOKS][webhook_id] = config
AddWebhookData(d, id, config) ==
    [k \in DOMAIN d \cup {id} |-> IF k = id THEN config ELSE d[k]]

\* mutant: the record is emptied and its key stays
RemoveWebhookDataKeepsKey(d, id) == [d EXCEPT ![id] = EmptyDict]

\* del self.data[CONF_WEBHOOKS][webhook_id]
RemoveWebhookData(d, id) == [k \in DOMAIN d \ {id} |-> d[k]]

\* Store.async_save: the saves waiting for the write lock, and the one that
\* holds it and has handed the mapping to the writer
NoSaving == [waiting |-> 0, writing |-> 0]

(* WebhookConfigManager (storage.py) *)

\* dict built by inserting the list's records in order: a later record with
\* the same webhook_id overwrites an earlier one; falsy ids are skipped.
RECURSIVE YamlDict(_)
YamlDict(list) ==
    IF list = <<>> THEN EmptyDict
    ELSE LET n == Len(list)
             rest == YamlDict(SubSeq(list, 1, n - 1))
             webhook == list[n]
             webhook_id == Get(webhook, "webhook_id", None)
         IN IF webhook_id # None /\ webhook_id # ""
            THEN [k \in DOMAIN rest \cup {webhook_id} |->
                     IF k = webhook_id THEN webhook ELSE rest[k]]
            ELSE rest

\* webhooks.update(ui_webhooks)
DictUpdate(base, over) ==
    [k \in DOMAIN base \cup DOMAIN over |->
        IF k \in DOMAIN over THEN over[k] ELSE base[k]]

GetAllWebhooks == DictUpdate(YamlDict(yaml_config), StorageGetAllWebhooks)

\* first record of the list whose webhook_id equals id, or None
YamlFirst(id) ==
    LET hits == {i \in 1..Len(yaml_config) :
                    Get(yaml_config[i], "webhook_id", None) = id}
    IN IF hits = {} THEN NoneDict
       ELSE yaml_config[CHOOSE i \in hits : \A j \in hits : i <= j]

GetWebhook(id) ==
    LET ui_webhook == StorageGetWebhook(id)
    IN IF Truthy(ui_webhook)
       THEN ui_webhook
       ELSE YamlFirst(id)

WebhookExists(id) ==
    IF StorageWebhookExists(id) THEN TRUE
    ELSE \E i \in 1..Len(yaml_config) :
            Get(yaml_config[i], "webhook_id", None) = id

\* what get_all_webhooks() and get_webhook(id), for every id, return now
ResolverView ==
    [all |-> GetAllWebhooks, get |-> [k \in WebhookIds |-> GetWebhook(k)]]

\* no add or remove yet
NoOp ==
    [kind |-> "none", id |-> None, config |-> NoneDict, fresh |-> FALSE,
     before |-> [all |-> EmptyDict, get |-> EmptyDict]]


-----------------------------------------------------------------------------
(* Template rendering (webhook.py, _render_template).  A template string   *)
(* holds a marker "{{" or "{%"; "{{ x }}" renders to the current context,  *)
(* "{{ oops" is malformed and raises TemplateError.                        *)

Contexts == {"on", "off"}

HasMarkers(value) == value \in {"{{ x }}", "{{ j }}", "{{ oops"}

\* "{{ j }}" renders to the text [1] whatever the context
RenderTemplate(value, ctx) ==
    IF value = None THEN [ok |-> TRUE, value |-> value]
    ELSE IF HasMarkers(value)
         THEN IF value = "{{ oops"
              THEN [ok |-> FALSE, value |-> "TemplateSyntaxError"]
              ELSE IF value = "{{ j }}"
              THEN [ok |-> TRUE, value |-> "[1]"]
              ELSE [ok |-> TRUE, value |-> ctx]
         ELSE [ok |-> TRUE, value |-> value]

-----------------------------------------------------------------------------
(* Payload values: what YAML, a config entry or a service call can hand    *)
(* over as a payload.  A value is a record with its Python type in `t` and *)
(* its content in the field of that type: s for str, n for int and bool    *)
(* (0/1), l for list, d for dict.                                          *)

PyNone == [t |-> "none", s |-> "", n |-> 0, l |-> <<>>, d |-> EmptyDict]

PyStr(s) == [t |-> "str", s |-> s, n |-> 0, l |-> <<>>, d |-> EmptyDict]

PyInt(n) == [t |-> "int", s |-> "", n |-> n, l |-> <<>>, d |-> EmptyDict]

PyBool(b) == [t |-> "bool", s |-> "", n |-> IF b THEN 1 ELSE 0, l |-> <<>>,
              d |-> EmptyDict]

PyList(l) == [t |-> "list", s |-> "", n |-> 0, l |-> l, d |-> EmptyDict]

PyDict(d) == [t |-> "dict", s |-> "", n |-> 0, l |-> <<>>, d |-> d]

\* mutant: only a leading brace is looked for
LooksLikeJsonBraceOnly(text) == text \in {"{\"k\": 1}", "{not json"}

\* rendered.strip().startswith(("{", "["))
LooksLikeJson(text) == text \in {"[1]", "{\"k\": 1}", "{not json"}

\* json.loads: the parsed value, or JSONDecodeError
JsonLoads(text) ==
    CASE text = "[1]" -> [ok |-> TRUE, value |-> PyList(<<PyInt(1)>>)]
      [] text = "{\"k\": 1}" -> [ok |-> TRUE, value |-> PyDict([k |-> PyInt(1)])]
      [] OTHER -> [ok |-> FALSE, value |-> PyNone]

RECURSIVE RenderPayload(_, _)

\* mutant: every leaf is passed through str(), as _render_headers does
RenderPayloadStringifies(payload, ctx) ==
    CASE payload.t = "none" -> [ok |-> TRUE, value |-> PyNone]
      [] payload.t = "str" ->
            LET rendered == RenderTemplate(payload.s, ctx)
            IN IF ~rendered.ok THEN [ok |-> FALSE, value |-> PyNone]
               ELSE IF LooksLikeJson(rendered.value) /\ JsonLoads(rendered.value).ok
               THEN [ok |-> TRUE, value |-> JsonLoads(rendered.value).value]
               ELSE [ok |-> TRUE, value |-> PyStr(rendered.value)]
      [] payload.t = "dict" ->
            LET rendered == [key \in DOMAIN payload.d |->
                                RenderPayload(payload.d[key], ctx)]
            IN IF \E key \in DOMAIN rendered : ~rendered[key].ok
               THEN [ok |-> FALSE, value |-> PyNone]
               ELSE [ok |-> TRUE,
                     value |-> PyDict([key \in DOMAIN rendered |-> rendered[key].value])]
      [] payload.t = "list" ->
            LET rendered == [i \in 1..Len(payload.l) |->
                                RenderPayload(payload.l[i], ctx)]
            IN IF \E i \in 1..Len(payload.l) : ~rendered[i].ok
               THEN [ok |-> FALSE, value |-> PyNone]
               ELSE [ok |-> TRUE,
                     value |-> PyList([i \in 1..Len(payload.l) |-> rendered[i].value])]
      [] OTHER -> [ok |-> TRUE, value |-> PyStr(ToString(payload.n))]

\* webhook.py 275-303: _render_payload.  ok is FALSE when a template of
\* the payload raised TemplateError.
RenderPayload(payload, ctx) ==
    CASE payload.t = "none" -> [ok |-> TRUE, value |-> PyNone]
      [] payload.t = "str" ->
            LET rendered == RenderTemplate(payload.s, ctx)
            IN IF ~rendered.ok THEN [ok |-> FALSE, value |-> PyNone]
               ELSE IF LooksLikeJson(rendered.value) /\ JsonLoads(rendered.value).ok
               THEN [ok |-> TRUE, value |-> JsonLoads(rendered.value).value]
               ELSE [ok |-> TRUE, value |-> PyStr(rendered.value)]
      [] payload.t = "dict" ->
            LET rendered == [key \in DOMAIN payload.d |->
                                RenderPayload(payload.d[key], ctx)]
            IN IF \E key \in DOMAIN rendered : ~rendered[key].ok
               THEN [ok |-> FALSE, value |-> PyNone]
               ELSE [ok |-> TRUE,
                     value |-> PyDict([key \in DOMAIN rendered |-> rendered[key].value])]
      [] payload.t = "list" ->
            LET rendered == [i \in 1..Len(payload.l) |->
                                RenderPayload(payload.l[i], ctx)]
            IN IF \E i \in 1..Len(payload.l) : ~rendered[i].ok
               THEN [ok |-> FALSE, value |-> PyNone]
               ELSE [ok |-> TRUE,
                     value |-> PyList([i \in 1..Len(payload.l) |-> rendered[i].value])]
      [] OTHER -> [ok |-> TRUE, value |-> payload]

\* webhook.py 268-273: _render_headers
RenderHeaders(headers, ctx) ==
    LET rendered == [key \in DOMAIN headers |-> RenderTemplate(headers[key], ctx)]
    IN IF \E key \in DOMAIN headers : ~rendered[key].ok
       THEN [ok |-> FALSE, value |-> EmptyDict]
       ELSE [ok |-> TRUE, value |-> [key \in DOMAIN headers |-> rendered[key].value]]

-----------------------------------------------------------------------------
(* Response text and its UTF-8 encoding.  A text is `run` ASCII characters *)
(* followed by the characters of `tail`, each given by its UTF-8 width     *)
(* 1..4.  Its encoding is `run` ASCII bytes followed by the bytes of the   *)
(* tail: "A" an ASCII byte, "L2".."L4" the lead byte of a 2..4-byte        *)
(* character, "C" a continuation byte.                                     *)

Text(run, tail) == [run |-> run, tail |-> tail]

CharBytes(w) ==
    CASE w = 1 -> <<"A">>
      [] w = 2 -> <<"L2", "C">>
      [] w = 3 -> <<"L3", "C", "C">>
      [] w = 4 -> <<"L4", "C", "C", "C">>

RECURSIVE EncodeTail(_)
EncodeTail(tail) ==
    IF tail = <<>> THEN <<>> ELSE CharBytes(Head(tail)) \o EncodeTail(Tail(tail))

\* str.encode('utf-8')
EncodeUtf8(text) == [run |-> text.run, bytes |-> EncodeTail(text.tail)]

\* len(bytes)
ByteLen(b) == b.run + Len(b.bytes)

\* bytes[:n]
SliceBytes(b, n) ==
    IF n <= b.run THEN [run |-> n, bytes |-> <<>>]
    ELSE [run |-> b.run,
          bytes |-> SubSeq(b.bytes, 1,
                           IF n - b.run < Len(b.bytes) THEN n - b.run ELSE Len(b.bytes))]

LeadWidth(byte) ==
    CASE byte = "A" -> 1
      [] byte = "L2" -> 2
      [] byte = "L3" -> 3
      [] byte = "L4" -> 4
      [] OTHER -> 0

\* bytes.decode('utf-8', errors='ignore') of the tail bytes: a byte that
\* does not start a complete character is skipped
RECURSIVE DecodeTail(_)
DecodeTail(bytes) ==
    IF bytes = <<>> THEN <<>>
    ELSE LET w == LeadWidth(Head(bytes))
         IN IF /\ w > 0
               /\ Len(bytes) >= w
               /\ \A i \in 2..w : bytes[i] = "C"
            THEN <<w>> \o DecodeTail(SubSeq(bytes, w + 1, Len(bytes)))
            ELSE DecodeTail(Tail(bytes))

DecodeIgnore(b) == Text(b.run, DecodeTail(b.bytes))

\* mutant: the slice keeps one byte too many
TruncateOffByOne(response_text) ==
    LET response_bytes == EncodeUtf8(response_text)
    IN IF ByteLen(response_bytes) > MAX_RESPONSE_SIZE
       THEN DecodeIgnore(SliceBytes(response_bytes, MAX_RESPONSE_SIZE + 1))
       ELSE response_text

\* webhook.py 230-239: the body text after the size check
Truncate(response_text) ==
    LET response_bytes == EncodeUtf8(response_text)
    IN IF ByteLen(response_bytes) > MAX_RESPONSE_SIZE
       THEN DecodeIgnore(SliceBytes(response_bytes, MAX_RESPONSE_SIZE))
       ELSE response_text

-----------------------------------------------------------------------------
(* What the HTTP session can answer to one request *)

NoText == Text(0, <<>>)

\* bodies around the cap, and one short body
NearCap == {MAX_RESPONSE_SIZE - 3, MAX_RESPONSE_SIZE - 1, MAX_RESPONSE_SIZE}
Tails == {<<>>, <<2>>, <<4>>}
Texts == {Text(1, <<>>)} \cup {Text(r, t) : r \in NearCap, t \in Tails}

\* The Content-Length header: absent, not a number, or a number
NoContentLength == [present |-> FALSE, numeric |-> FALSE, n |-> 0]
ContentLengths ==
    { NoContentLength,
      [present |-> TRUE, numeric |-> FALSE, n |-> 0],
      [present |-> TRUE, numeric |-> TRUE, n |-> MAX_RESPONSE_SIZE],
      [present |-> TRUE, numeric |-> TRUE, n |-> MAX_RESPONSE_SIZE + 1] }

\* An error message: its text and, where the code formats one in, a status
Msg(text, status) == [text |-> text, status |-> status]

NoMsg == Msg("", 0)

Response(status, content_length, text) ==
    [kind |-> "response", status |-> status, content_length |-> content_length,
     text |-> text, message |-> NoMsg]

Raises(exc, message) ==
    [kind |-> exc, status |-> 0, content_length |-> NoContentLength,
     text |-> NoText, message |-> Msg(message, 0)]

TransportOutcomes ==
    { Response(200, NoContentLength, t) : t \in Texts }
    \cup { Response(201, cl, Text(1, <<>>)) : cl \in ContentLengths }
    \cup { Response(s, NoContentLength, NoText) : s \in {404, 429, 500} }
    \cup { Response(404, [present |-> TRUE, numeric |-> TRUE,
                          n |-> MAX_RESPONSE_SIZE + 1], NoText) }
    \cup { Raises("ClientConnectorError", "Cannot connect to host"),
           Raises("TimeoutError", ""),
           Raises("Exception", "Server disconnected") }

\* mutant: a declared size equal to the cap is rejected too
HeaderTooLargeInclusive(content_length) ==
    /\ content_length.present
    /\ content_length.numeric
    /\ content_length.n >= MAX_RESPONSE_SIZE

\* webhook.py 217-225: the Content-Length header declares more than the cap
\* (a header that is absent, empty or not a number passes)
HeaderTooLarge(content_length) ==
    /\ content_length.present
    /\ content_length.numeric
    /\ content_length.n > MAX_RESPONSE_SIZE

\* mutant: the declared size is checked before the status
MakeRequestSizeFirst(o) ==
    IF o.kind # "response"
    THEN [returns |-> FALSE, exc |-> o.kind, status |-> 0, message |-> o.message,
          status_code |-> 0, body |-> NoText]
    ELSE IF HeaderTooLarge(o.content_length)
    THEN [returns |-> FALSE, exc |-> "HomeAssistantError", status |-> 0,
          message |-> Msg("Response size exceeds maximum allowed", 0),
          status_code |-> 0, body |-> NoText]
    ELSE IF o.status >= 400
    THEN [returns |-> FALSE, exc |-> "ClientResponseError", status |-> o.status,
          message |-> Msg("reason", o.status), status_code |-> 0, body |-> NoText]
    ELSE [returns |-> TRUE, exc |-> "", status |-> 0, message |-> NoMsg,
          status_code |-> o.status, body |-> Truncate(o.text)]

\* _make_request, from the session's answer on: what it returns or raises
MakeRequest(o) ==
    IF o.kind # "response"
    THEN [returns |-> FALSE, exc |-> o.kind, status |-> 0, message |-> o.message,
          status_code |-> 0, body |-> NoText]
    ELSE IF o.status >= 400
    THEN \* response.raise_for_status()
         [returns |-> FALSE, exc |-> "ClientResponseError", status |-> o.status,
          message |-> Msg("reason", o.status), status_code |-> 0, body |-> NoText]
    ELSE IF HeaderTooLarge(o.content_length)
    THEN [returns |-> FALSE, exc |-> "HomeAssistantError", status |-> 0,
          message |-> Msg("Response size exceeds maximum allowed", 0),
          status_code |-> 0, body |-> NoText]
    ELSE [returns |-> TRUE, exc |-> "", status |-> 0, message |-> NoMsg,
          status_code |-> o.status, body |-> Truncate(o.text)]

-----------------------------------------------------------------------------
(* Events on the bus (webhook.py 93-100, _fire_error_event) *)

\* mutant: the loop index is reported, not the attempt number
SuccessEventZeroBased(webhook_id, status_code, attempt) ==
    [event |-> "webhook_actions_success", webhook_id |-> webhook_id,
     error_type |-> "", error_message |-> NoMsg, attempt |-> attempt - 1,
     has_status |-> TRUE, status_code |-> status_code]

SuccessEvent(webhook_id, status_code, attempt) ==
    [event |-> "webhook_actions_success", webhook_id |-> webhook_id,
     error_type |-> "", error_message |-> NoMsg, attempt |-> attempt,
     has_status |-> TRUE, status_code |-> status_code]

\* status_code is put in the event only when truthy
ErrorEvent(webhook_id, error_type, error_message, attempt, status_code) ==
    [event |-> "webhook_actions_error", webhook_id |-> webhook_id,
     error_type |-> error_type, error_message |-> error_message,
     attempt |-> attempt,
     has_status |-> (status_code # 0), status_code |-> status_code]

\* what hass.bus.async_fire raises when it raises
SinkError == Msg("event bus error", 0)

-----------------------------------------------------------------------------
(* Service calls: handle_webhook_call and WebhookExecutor.execute *)

NoError == [type |-> "", message |-> NoMsg]

NoResult == [kind |-> "none", status_code |-> 0, body |-> NoText,
             exc |-> "", message |-> NoMsg]

\* execute returned the response record
Returned(status_code, body) ==
    [kind |-> "response", status_code |-> status_code, body |-> body,
     exc |-> "", message |-> NoMsg]

\* the call raised: the exception's class and message.  handle_webhook_call
\* re-raises whatever execute raised as HomeAssistantError("Webhook
\* execution failed: {err}"), which carries the same message.
Raised(exc, message) ==
    [kind |-> "raised", status_code |-> 0, body |-> NoText,
     exc |-> exc, message |-> message]

\* execute fell off its end: it returned None (handle_webhook_call then
\* fails on response["status_code"] and raises HomeAssistantError)
ReturnedNone ==
    [kind |-> "returned_none", status_code |-> 0, body |-> NoText,
     exc |-> "", message |-> NoMsg]

\* an optional int of the service call: None, or the number
NoTimeout == [given |-> FALSE, n |-> 0]

Timeout(n) == [given |-> TRUE, n |-> n]

\* __init__.py 163-167: the four call.data.get(...) of a service call
Overrides(url_override, headers_override, payload_override, timeout_override) ==
    [url_override |-> url_override, headers_override |-> headers_override,
     payload_override |-> payload_override, timeout_override |-> timeout_override]

NoOverrides == Overrides(None, NoneDict, PyNone, NoTimeout)

NoRequest == [url |-> None, method |-> None, headers |-> EmptyDict,
              payload |-> PyNone, timeout |-> 0]

IdleCall ==
    [pc |-> "idle",            \* idle, request (in flight), sleep, done, failed
     requested |-> None,       \* call.data[CONF_WEBHOOK_ID]
     config |-> NoneDict,      \* what get_webhook returned
     overrides |-> NoOverrides,   \* the call's override arguments
     request |-> NoRequest,    \* url, method, headers, payload, timeout as built
     webhook_id |-> None,
     url_template |-> None,    \* the effective url before rendering
     url |-> None,             \* the rendered url
     headers |-> EmptyDict,    \* the rendered headers
     payload |-> PyNone,       \* the rendered payload
     sent |-> [kind |-> "none", value |-> PyNone],   \* body of the latest request
     retry_attempts |-> 0,
     retry_backoff |-> 0,
     attempt |-> 0,            \* the loop variable of range(retry_attempts)
     last_error |-> NoError,
     log |-> <<>>,             \* history: requests issued and waits started
     events |-> <<>>,          \* history: events this call put on the bus
     renders |-> 0,            \* history: rendering passes of this call
     outcomes |-> <<>>,        \* history: how each _make_request ended
     last_raw |-> Raises("", ""),  \* history: the session's latest answer
     sink_raised |-> FALSE,    \* history: the bus raised during this call
     result |-> NoResult]

\* a request goes out: its number, the url it carries, and (history only)
\* what the effective url renders to at that moment
AttemptEntry(n, url, fresh) ==
    [what |-> "attempt", n |-> n, url |-> url, fresh |-> fresh]

WaitEntry(seconds) == [what |-> "wait", n |-> seconds, url |-> None, fresh |-> None]

RECURSIVE Pow(_, _)
Pow(b, e) == IF e = 0 THEN 1 ELSE b * Pow(b, e - 1)

\* how one _make_request ended: it returned a record ("ok"), or raised
\* HttpError with a 4xx status other than 429 ("fatal"), or raised anything
\* else ("retryable")
OutcomeClass(r) ==
    IF r.returns THEN "ok"
    ELSE IF /\ r.exc = "ClientResponseError"
            /\ r.status \in 400..499
            /\ r.status # 429
         THEN "fatal"
         ELSE "retryable"

\* mutant: the first error is kept
SetLastErrorOnce(cr, type, message) ==
    IF cr.last_error.type # "" THEN cr
    ELSE [cr EXCEPT !.last_error = [type |-> type, message |-> message]]

\* webhook.py 112, 122, 131, 158: last_error = (type, message)
SetLastError(cr, type, message) ==
    [cr EXCEPT !.last_error = [type |-> type, message |-> message]]

\* mutant: every 4xx status ends the call, 429 included
NonRetryableAny4xx(status) == 400 <= status /\ status < 500

\* mutant: the classification is inverted, 5xx aborts and 4xx retries
NonRetryableServerOnly(status) == status >= 500

\* webhook.py 134
NonRetryable(status) == 400 <= status /\ status < 500 /\ status # 429

\* mutant: the wait before the last attempt is skipped
ShouldWaitBeforeLastSkipped(attempt, retry_attempts) == attempt < retry_attempts - 2

\* webhook.py 168
ShouldWait(attempt, retry_attempts) == attempt < retry_attempts - 1

\* mutant: the exponent is the attempt number, not the loop index
WaitTimeOneBased(retry_backoff, attempt) == Pow(retry_backoff, attempt + 1)

\* webhook.py 169
WaitTime(retry_backoff, attempt) == Pow(retry_backoff, attempt)

\* webhook.py 178-187: after the loop
AfterLoop(cr, sink) ==
    IF cr.last_error # NoError
    THEN IF sink = "ok"
         THEN [cr EXCEPT
                 !.pc = "failed",
                 !.events = Append(@, ErrorEvent(cr.webhook_id, cr.last_error.type,
                                cr.last_error.message, cr.retry_attempts, 0)),
                 !.result = Raised("HomeAssistantError", cr.last_error.message)]
         ELSE [cr EXCEPT !.pc = "failed", !.sink_raised = TRUE,
                         !.result = Raised("Exception", SinkError)]
    ELSE [cr EXCEPT !.pc = "done", !.result = ReturnedNone]

\* method.upper()
Upper(method) ==
    CASE method = "post" -> "POST"
      [] method = "put" -> "PUT"
      [] method = "patch" -> "PATCH"
      [] OTHER -> method

\* str(payload)
Str(payload) ==
    CASE payload.t = "str" -> payload.s
      [] payload.t = "int" -> ToString(payload.n)
      [] payload.t = "bool" -> IF payload.n = 1 THEN "True" ELSE "False"
      [] OTHER -> "None"

NoBody == [kind |-> "none", value |-> PyNone]

\* mutant: the body is attached whatever the method
RequestBodyAnyMethod(method, payload) ==
    IF payload # PyNone
    THEN IF payload.t \in {"dict", "list"}
         THEN [kind |-> "json", value |-> payload]
         ELSE [kind |-> "data", value |-> PyStr(Str(payload))]
    ELSE NoBody

\* webhook.py 198-208: the body _make_request puts in request_kwargs
RequestBody(method, payload) ==
    IF Upper(method) \in {"POST", "PUT", "PATCH"} /\ payload # PyNone
    THEN IF payload.t \in {"dict", "list"}
         THEN [kind |-> "json", value |-> payload]
         ELSE [kind |-> "data", value |-> PyStr(Str(payload))]
    ELSE NoBody

\* mutant: the url is rendered again for every attempt
LoopHeadRerender(cr, sink) ==
    IF cr.attempt < cr.retry_attempts
    THEN LET fresh == RenderTemplate(cr.url_template, context).value
         IN [cr EXCEPT !.pc = "request",
                       !.url = fresh,
                       !.sent = RequestBody(cr.request.method, cr.payload),
                       !.renders = IF cr.attempt = 0 THEN @ ELSE @ + 1,
                       !.log = Append(@, AttemptEntry(cr.attempt + 1, fresh, fresh))]
    ELSE AfterLoop(cr, sink)

\* webhook.py 82-90: the loop head; the next request goes out, or the loop ends
LoopHead(cr, sink) ==
    IF cr.attempt < cr.retry_attempts
    THEN [cr EXCEPT !.pc = "request",
                    !.sent = RequestBody(cr.request.method, cr.payload),
                    !.log = Append(@, AttemptEntry(cr.attempt + 1, cr.url,
                                      RenderTemplate(cr.url_template, context).value))]
    ELSE AfterLoop(cr, sink)

\* webhook.py 167-176, reached from an except clause that did not raise
AfterRetryable(cr, sink) ==
    IF ShouldWait(cr.attempt, cr.retry_attempts)
    THEN [cr EXCEPT !.pc = "sleep",
                    !.log = Append(@, WaitEntry(WaitTime(cr.retry_backoff, cr.attempt)))]
    ELSE LoopHead([cr EXCEPT !.attempt = @ + 1], sink)

\* webhook.py 111-165: the except clauses, in order
OnException(cr, exc, status, message, sink) ==
    CASE exc = "ClientConnectorError" ->
            AfterRetryable(SetLastError(cr, "connection_error", message), sink)
      [] exc = "TimeoutError" ->
            AfterRetryable(SetLastError(cr, "timeout_error", message), sink)
      [] exc = "ClientResponseError" ->
            LET cr1 == SetLastError(cr, "http_error", Msg("HTTP", status))
                last == cr1.last_error
            IN IF NonRetryable(status)
               THEN IF sink = "ok"
                    THEN [cr1 EXCEPT
                            !.pc = "failed",
                            !.events = Append(@, ErrorEvent(cr.webhook_id, last.type,
                                           last.message, cr.attempt + 1, status)),
                            !.result = Raised("ClientResponseError", last.message)]
                    ELSE [cr1 EXCEPT !.pc = "failed", !.sink_raised = TRUE,
                                     !.result = Raised("Exception", SinkError)]
               ELSE AfterRetryable(cr1, sink)
      [] OTHER ->
            AfterRetryable(SetLastError(cr, "connection_error", message), sink)

\* webhook.py 84-109: _make_request came back
OnMakeRequest(cr0, o, sink, sinkAfter) ==
    LET r == MakeRequest(o)
        cr == [cr0 EXCEPT !.outcomes = Append(@, OutcomeClass(r)), !.last_raw = o]
    IN IF r.returns
       THEN IF sink = "ok"
            THEN [cr EXCEPT
                    !.pc = "done",
                    !.events = Append(@, SuccessEvent(cr.webhook_id, r.status_code,
                                                      cr.attempt + 1)),
                    !.result = Returned(r.status_code, r.body)]
            ELSE \* async_fire raised inside the try block
                 OnException([cr EXCEPT !.sink_raised = TRUE],
                             "Exception", 0, SinkError, sinkAfter)
       ELSE OnException(cr, r.exc, r.status, r.message, sink)

\* mutant: the override replaces the definition's headers
MergeHeadersReplaces(headers, headers_override) ==
    IF Truthy(headers_override) THEN headers_override ELSE headers

\* webhook.py 59-62: a copy of the definition's headers, updated with the
\* override when the override is neither None nor empty
MergeHeaders(headers, headers_override) ==
    IF Truthy(headers_override) THEN DictUpdate(headers, headers_override) ELSE headers

\* webhook.py 56-65: the request before rendering.  `x or y` takes y when x
\* is None, "" or 0.
BuildRequest(config, ov) ==
    [url |-> IF ov.url_override # None /\ ov.url_override # ""
             THEN ov.url_override ELSE Get(config, "url", None),
     method |-> Get(config, "method", "POST"),
     headers |-> MergeHeaders(Get(config, "headers", EmptyDict), ov.headers_override),
     payload |-> IF ov.payload_override # PyNone
                 THEN ov.payload_override ELSE Get(config, "payload", PyNone),
     timeout |-> IF ov.timeout_override.given /\ ov.timeout_override.n # 0
                 THEN ov.timeout_override.n
                 ELSE Get(config, "timeout", DEFAULT_TIMEOUT)]

\* mutant: a header whose template fails is sent unrendered
RenderRequestKeepsBadHeaders(request, ctx) ==
    LET url == RenderTemplate(request.url, ctx)
        payload == RenderPayload(request.payload, ctx)
    IN [ok |-> url.ok /\ payload.ok,
        error |-> "TemplateSyntaxError",
        url |-> url.value, headers |-> request.headers, payload |-> payload.value]

\* webhook.py 70-74: url, headers and payload rendered in this order; the
\* first TemplateError ends the rendering
RenderRequest(request, ctx) ==
    LET url == RenderTemplate(request.url, ctx)
        headers == RenderHeaders(request.headers, ctx)
        payload == RenderPayload(request.payload, ctx)
    IN [ok |-> url.ok /\ headers.ok /\ payload.ok,
        error |-> "TemplateSyntaxError",
        url |-> url.value, headers |-> headers.value, payload |-> payload.value]

\* webhook.py 54-82: execute up to the first request
Execute(cr, config, ov, sink) ==
    LET webhook_id == Get(config, "webhook_id", "unknown")
        request == BuildRequest(config, ov)
        retry_attempts == Get(config, "retry_attempts", DEFAULT_RETRY_ATTEMPTS)
        retry_backoff == Get(config, "retry_backoff", DEFAULT_RETRY_BACKOFF)
        rendered == RenderRequest(request, context)
        cr1 == [cr EXCEPT !.webhook_id = webhook_id,
                          !.request = request,
                          !.url_template = request.url,
                          !.retry_attempts = retry_attempts,
                          !.retry_backoff = retry_backoff,
                          !.renders = @ + 1]
    IN IF ~rendered.ok
       THEN IF sink = "ok"
            THEN [cr1 EXCEPT
                    !.pc = "failed",
                    !.events = Append(@, ErrorEvent(webhook_id, "template_error",
                                                    Msg(rendered.error, 0), 0, 0)),
                    !.result = Raised("TemplateError", Msg(rendered.error, 0))]
            ELSE [cr1 EXCEPT !.pc = "failed", !.sink_raised = TRUE,
                             !.result = Raised("Exception", SinkError)]
       ELSE LoopHead([cr1 EXCEPT !.url = rendered.url,
                                 !.headers = rendered.headers,
                                 !.payload = rendered.payload,
                                 !.attempt = 0,
                                 !.last_error = NoError], sink)

\* mutant: the definition is handed to the executor unchecked
ServiceCallUnchecked(cr, id, ov, sink) ==
    Execute([cr EXCEPT !.requested = id, !.config = GetWebhook(id), !.overrides = ov],
            GetWebhook(id), ov, sink)

\* __init__.py 154-190: handle_webhook_call up to the first suspension
ServiceCall(cr, id, ov, sink) ==
    LET webhook_config == GetWebhook(id)
        cr0 == [cr EXCEPT !.requested = id, !.config = webhook_config,
                          !.overrides = ov]
    IN IF ~Truthy(webhook_config)
       THEN [cr0 EXCEPT !.pc = "failed",
                        !.result = Raised("HomeAssistantError", Msg("not found", 0))]
       ELSE Execute(cr0, webhook_config, ov, sink)

\* the overrides service calls carry: none, or another url
CallOverrides ==
    { NoOverrides, Overrides("http://override", NoneDict, PyNone, NoTimeout) }

\* mutant: the override is merged into the definition's own headers
ConfigAfterExecuteSharedHeaders(config, ov) ==
    IF "headers" \in DOMAIN config /\ Truthy(ov.headers_override)
    THEN [config EXCEPT !["headers"] = DictUpdate(@, ov.headers_override)]
    ELSE config

\* The dict the executor was constructed with, as execute leaves it: the
\* headers are merged into a copy (webhook.py 59-62) and rendering builds
\* new dicts and lists (270-272, 293-301), so no key of it is assigned.
ConfigAfterExecute(config, ov) == config

\* storage.py 55-57: WebhookStorage.get_webhook hands out the store's own
\* dict, so what execute does to it is done to the store
DataAfterCall(id, ov) ==
    LET ui_webhook == StorageGetWebhook(id)
    IN IF Truthy(ui_webhook)
       THEN [data EXCEPT ![id] = ConfigAfterExecute(ui_webhook, ov)]
       ELSE data

\* storage.py 110-113: a declarative record is handed out as webhook.copy(),
\* a shallow copy that shares the record's headers and payload objects
YamlAfterCall(id, ov) ==
    LET hits == {i \in 1..Len(yaml_config) :
                    Get(yaml_config[i], "webhook_id", None) = id}
    IN IF Truthy(StorageGetWebhook(id)) \/ hits = {} THEN yaml_config
       ELSE LET first == CHOOSE i \in hits : \A j \in hits : i <= j
                after == ConfigAfterExecute(yaml_config[first], ov)
            IN [yaml_config EXCEPT ![first] =
                   [key \in DOMAIN @ |->
                       IF key \in {"headers", "payload"} /\ key \in DOMAIN after
                       THEN after[key] ELSE @[key]]]

-----------------------------------------------------------------------------
(* Actions *)

\* the service is called: resolve, build, render, and send the first request
HandleWebhookCall(c, id, ov) ==
    /\ c \in active
    /\ call[c].pc = "idle"
    /\ call' = [call EXCEPT ![c] = ServiceCall(call[c], id, ov, "ok")]
    /\ data' = DataAfterCall(id, ov)
    /\ yaml_config' = YamlAfterCall(id, ov)
    /\ UNCHANGED <<persisted, context, active, saving, last_op>>

\* mutant: the wait is a blocking sleep; while a call sleeps no other
\* call's request is resumed
TransportRespondsUnlessAnotherSleeps(c, o) ==
    /\ call[c].pc = "request"
    /\ \A other \in CallIds \ {c} : call[other].pc # "sleep"
    /\ call' = [call EXCEPT ![c] = OnMakeRequest(call[c], o, "ok", "ok")]
    /\ UNCHANGED <<yaml_config, data, persisted, context, active, saving, last_op>>

\* the request in flight ends: a response, or an exception of the session
TransportResponds(c, o) ==
    /\ call[c].pc = "request"
    /\ call' = [call EXCEPT ![c] = OnMakeRequest(call[c], o, "ok", "ok")]
    /\ UNCHANGED <<yaml_config, data, persisted, context, active, saving, last_op>>

\* mutant: after a wait the loop reads the budget from the definition the
\* resolver returns now
SleepElapsesReresolves(c) ==
    /\ call[c].pc = "sleep"
    /\ LET now == GetWebhook(call[c].requested)
           budget == IF Truthy(now)
                     THEN Get(now, "retry_attempts", DEFAULT_RETRY_ATTEMPTS)
                     ELSE 0
       IN call' = [call EXCEPT ![c] =
                     LoopHead([call[c] EXCEPT !.attempt = @ + 1,
                                              !.retry_attempts = budget], "ok")]
    /\ UNCHANGED <<yaml_config, data, persisted, context, active, saving, last_op>>

\* asyncio.sleep(wait_time) returns and the loop goes round
SleepElapses(c) ==
    /\ call[c].pc = "sleep"
    /\ call' = [call EXCEPT ![c] = LoopHead([call[c] EXCEPT !.attempt = @ + 1], "ok")]
    /\ UNCHANGED <<yaml_config, data, persisted, context, active, saving, last_op>>

\* the state the templates read changes
ContextChanges ==
    /\ context' \in Contexts \ {context}
    /\ UNCHANGED <<yaml_config, data, persisted, active, call, saving, last_op>>

\* the same two steps with the event bus raising where the step fires
HandleWebhookCallSinkRaises(c, id, ov) ==
    /\ c \in active
    /\ call[c].pc = "idle"
    /\ LET n == ServiceCall(call[c], id, ov, "raise")
       IN /\ n.sink_raised
          /\ call' = [call EXCEPT ![c] = n]
    /\ data' = DataAfterCall(id, ov)
    /\ yaml_config' = YamlAfterCall(id, ov)
    /\ UNCHANGED <<persisted, context, active, saving, last_op>>

TransportRespondsSinkRaises(c, o, sinkAfter) ==
    /\ call[c].pc = "request"
    /\ LET n == OnMakeRequest(call[c], o, "raise", sinkAfter)
       IN /\ n # OnMakeRequest(call[c], o, "ok", "ok")
          /\ call' = [call EXCEPT ![c] = n]
    /\ UNCHANGED <<yaml_config, data, persisted, context, active, saving, last_op>>

\* WebhookStorage.async_add_webhook: replace the record, then save
AsyncAddWebhook(id, config) ==
    /\ data' = AddWebhookData(data, id, config)
    /\ persisted' = data'
    /\ UNCHANGED <<yaml_config, context, active, call, saving, last_op>>

\* WebhookStorage.async_remove_webhook: delete and save, when present
AsyncRemoveWebhook(id) ==
    /\ id \in DOMAIN data
    /\ data' = RemoveWebhookData(data, id)
    /\ persisted' = data'
    /\ UNCHANGED <<yaml_config, context, active, call, saving, last_op>>

\* async_add_webhook up to its await: the record is replaced in memory and
\* the save is requested; other handlers run until the save returns
AddWebhookStarts(id, config) ==
    /\ saving.waiting + saving.writing < MaxSaving
    /\ data' = AddWebhookData(data, id, config)
    /\ saving' = [saving EXCEPT !.waiting = @ + 1]
    /\ last_op' = [kind |-> "add", id |-> id, config |-> config,
                   fresh |-> id \notin DOMAIN data, before |-> ResolverView]
    /\ UNCHANGED <<yaml_config, persisted, context, active, call>>

\* async_remove_webhook up to its await, when the id is stored (otherwise
\* the handler returns at once and changes nothing)
RemoveWebhookStarts(id) ==
    /\ id \in DOMAIN data
    /\ saving.waiting + saving.writing < MaxSaving
    /\ data' = RemoveWebhookData(data, id)
    /\ saving' = [saving EXCEPT !.waiting = @ + 1]
    /\ LET undoes == last_op.kind = "add" /\ last_op.id = id /\ last_op.fresh
       IN last_op' = [kind |-> "remove", id |-> id, config |-> NoneDict,
                      fresh |-> undoes,
                      before |-> IF undoes THEN last_op.before ELSE ResolverView]
    /\ UNCHANGED <<yaml_config, persisted, context, active, call>>

\* the save that holds the write lock hands the live mapping to the writer
SaveWrites ==
    /\ saving.waiting > 0
    /\ saving.writing = 0
    /\ persisted' = data
    /\ saving' = [waiting |-> saving.waiting - 1, writing |-> 1]
    /\ UNCHANGED <<yaml_config, data, context, active, call, last_op>>

\* `await self.async_save()` returns: the add or remove that awaited it is
\* complete
SaveCompletes ==
    /\ saving.writing = 1
    /\ saving' = [saving EXCEPT !.writing = 0]
    /\ UNCHANGED <<yaml_config, data, persisted, context, active, call, last_op>>

-----------------------------------------------------------------------------
(* Specifications *)

Init ==
    /\ yaml_config \in YamlLists
    /\ data = EmptyDict
    /\ persisted = EmptyDict
    /\ context = "on"
    /\ active = {1}
    /\ call = [c \in CallIds |-> IdleCall]
    /\ saving = NoSaving
    /\ last_op = NoOp

Next ==
    \/ \E c \in CallIds, id \in WebhookIds, ov \in CallOverrides : HandleWebhookCall(c, id, ov)
    \/ \E c \in CallIds, o \in TransportOutcomes : TransportResponds(c, o)
    \/ \E c \in CallIds : SleepElapses(c)
    \/ ContextChanges
    \/ \E id \in WebhookIds : \E config \in StoreRecords(id) : AsyncAddWebhook(id, config)
    \/ \E id \in WebhookIds : AsyncRemoveWebhook(id)

\* the event bus accepts every event
Spec == Init /\ [][Next]_vars

NextFaultySink ==
    \/ Next
    \/ \E c \in CallIds, id \in WebhookIds, ov \in CallOverrides :
          HandleWebhookCallSinkRaises(c, id, ov)
    \/ \E c \in CallIds, o \in TransportOutcomes, s \in {"ok", "raise"} :
          TransportRespondsSinkRaises(c, o, s)

\* the event bus may raise on any event; the declarative list holds at most
\* one record
InitFaultySink == Init /\ Len(yaml_config) <= 1

SpecFaultySink == InitFaultySink /\ [][NextFaultySink]_vars

\* adds and removes of the editable store, interleaved at their awaits
InitStore ==
    /\ yaml_config \in YamlLists
    /\ data = EmptyDict
    /\ persisted = EmptyDict
    /\ context = "on"
    /\ active = {}
    /\ call = [c \in CallIds |-> IdleCall]
    /\ saving = NoSaving
    /\ last_op = NoOp

NextStore ==
    \/ \E id \in WebhookIds : \E config \in StoreRecords(id) : AddWebhookStarts(id, config)
    \/ \E id \in WebhookIds : RemoveWebhookStarts(id)
    \/ SaveWrites
    \/ SaveCompletes

SpecStore == InitStore /\ [][NextStore]_vars

-----------------------------------------------------------------------------
(* Request building on its own: one definition with headers, payload,     *)
(* method and timeout, and service calls carrying every kind of override.  *)

PayloadLeaves ==
    { PyNone, PyBool(TRUE), PyInt(7), PyStr("text"), PyStr("{{ x }}"),
      PyStr("{{ j }}"), PyStr("[1]"), PyStr("{\"k\": 1}"), PyStr("{not json"),
      PyStr("{{ oops") }

\* the leaves the wider sequences and mappings are made of
WideLeaves == { PyInt(7), PyStr("{{ x }}"), PyStr("{{ j }}"), PyStr("{not json") }

PayloadKeys == {"k", "m"}

\* payloads nested up to `depth`: every leaf, every leaf in a one-element
\* sequence or mapping, every sequence up to MaxWidth long and every
\* mapping over PayloadKeys of the wide leaves; above depth 1, those
\* wrapped in one-element sequences and mappings
RECURSIVE Payloads(_)
Payloads(depth) ==
    IF depth = 0 THEN PayloadLeaves
    ELSE LET below == Payloads(depth - 1)
         IN below \cup { PyList(<<p>>) : p \in below }
                  \cup { PyDict([k |-> p]) : p \in below }
                  \cup IF depth > 1 THEN {}
                       ELSE { PyList(l) : l \in UNION { [1..n -> WideLeaves] : n \in 0..MaxWidth } }
                            \cup { PyDict(d) : d \in UNION { [K -> WideLeaves] :
                                                             K \in SUBSET PayloadKeys } }

\* vol.Any(cv.string, dict, list): what a payload can be at its top
SchemaPayloads == { p \in Payloads(MaxDepth) : p.t \in {"str", "dict", "list"} }

RequestRecords ==
    { [webhook_id |-> "a", url |-> "{{ x }}", method |-> "POST", headers |-> headers,
       payload |-> payload, timeout |-> 30, retry_attempts |-> 1] :
         headers \in { EmptyDict, [A |-> "1", B |-> "2"], [A |-> "{{ x }}"] },
         payload \in { PyStr("body"), PyDict([k |-> PyStr("{{ x }}")]) } }
    \cup { [webhook_id |-> "a", url |-> "http://a", method |-> method,
             payload |-> PyStr("body"), retry_attempts |-> 1] : method \in HTTP_METHODS }
    \cup { [webhook_id |-> "a", url |-> "http://a"],
           [webhook_id |-> "a", url |-> "{{ oops", retry_attempts |-> 1],
           [webhook_id |-> "a", url |-> "http://a", retry_attempts |-> 1,
            headers |-> [A |-> "1", B |-> "{{ oops"]] }

RequestOverrides ==
    { Overrides(url_override, headers_override, payload_override, timeout_override) :
        url_override \in {None, "", "http://override"},
        headers_override \in {NoneDict, EmptyDict, [B |-> "9", C |-> "3"]},
        payload_override \in {PyNone, PyStr(""), PyDict(EmptyDict), PyList(<<>>)},
        timeout_override \in {NoTimeout, Timeout(0), Timeout(5)} }
    \cup { Overrides(None, NoneDict, payload_override, NoTimeout) :
              payload_override \in SchemaPayloads }

InitRequest ==
    /\ yaml_config \in { <<webhook>> : webhook \in RequestRecords }
    /\ data = EmptyDict
    /\ persisted = EmptyDict
    /\ context = "on"
    /\ active = {1}
    /\ call = [c \in CallIds |-> IdleCall]
    /\ saving = NoSaving
    /\ last_op = NoOp

NextRequest ==
    \/ \E c \in CallIds, id \in WebhookIds, ov \in RequestOverrides :
          HandleWebhookCall(c, id, ov)
    \/ ContextChanges

SpecRequest == InitRequest /\ [][NextRequest]_vars

-----------------------------------------------------------------------------
(* Concurrent service calls: every call slot may start, on a declarative   *)
(* definition "a" and a store definition "b".                              *)

ConcurrentOutcomes ==
    { Response(200, NoContentLength, Text(1, <<>>)),
      Response(404, NoContentLength, NoText),
      Raises("TimeoutError", "") }

\* no override, or headers merged over the definition's
ConcurrentOverrides ==
    { NoOverrides, Overrides(None, [B |-> "9", C |-> "3"], PyNone, NoTimeout) }

InitConcurrent ==
    /\ yaml_config \in { <<webhook>> : webhook \in
                             { w \in DeclarativeRecords : w.webhook_id = "a" } }
    /\ data = [b |-> [webhook_id |-> "b", url |-> "http://ui-b", retry_attempts |-> 3,
                      retry_backoff |-> 3, headers |-> [A |-> "1", B |-> "2"]]]
    /\ persisted = data
    /\ context = "on"
    /\ active = CallIds
    /\ call = [c \in CallIds |-> IdleCall]
    /\ saving = NoSaving
    /\ last_op = NoOp

NextConcurrent ==
    \/ \E c \in CallIds, id \in WebhookIds, ov \in ConcurrentOverrides :
          HandleWebhookCall(c, id, ov)
    \/ \E c \in CallIds, o \in ConcurrentOutcomes : TransportResponds(c, o)
    \/ \E c \in CallIds : SleepElapses(c)

SpecConcurrent == InitConcurrent /\ [][NextConcurrent]_vars

-----------------------------------------------------------------------------
(* Reading a call's history *)

AttemptsOf(cr) == SelectSeq(cr.log, LAMBDA e : e.what = "attempt")

WaitsOf(cr) == SelectSeq(cr.log, LAMBDA e : e.what = "wait")

\* the log is attempt 1, wait, attempt 2, wait, ..., attempt k
AttemptsThenWaits(cr, k) ==
    /\ Len(cr.log) = 2 * k - 1
    /\ \A i \in 1..Len(cr.log) :
          IF i % 2 = 1
          THEN cr.log[i].what = "attempt" /\ cr.log[i].n = (i + 1) \div 2
          ELSE cr.log[i].what = "wait"

\* attempts 1..k-1 ended in a retryable failure, attempt k ended as `last`
FailedThen(cr, k, last) ==
    /\ Len(cr.outcomes) = k
    /\ k >= 1
    /\ \A i \in 1..(k - 1) : cr.outcomes[i] = "retryable"
    /\ cr.outcomes[k] = last

\* the error type and message of a failed _make_request
FailureType(o) ==
    CASE o.kind = "ClientConnectorError" -> "connection_error"
      [] o.kind = "TimeoutError" -> "timeout_error"
      [] o.kind = "response" /\ o.status >= 400 -> "http_error"
      [] OTHER -> "connection_error"

FailureMessage(o) ==
    IF o.kind = "response"
    THEN IF o.status >= 400 THEN [text |-> "HTTP", status |-> o.status]
         ELSE [text |-> "Response size exceeds maximum allowed", status |-> 0]
    ELSE o.message

-----------------------------------------------------------------------------
(* C1: when attempts 1..k-1 fail with a retryable error and attempt k      *)
(* succeeds (1 <= k <= retry_attempts), execute has issued exactly k       *)
(* requests with a wait after each of the first k-1, returns the response  *)
(* record of attempt k, and has fired exactly one event: a success event   *)
(* with attempt = k and that response's status code.                       *)
C1_SuccessOnAttemptK ==
    \A c \in CallIds :
        LET cr == call[c]
            k == Len(cr.outcomes)
        IN (cr.retry_attempts >= 1 /\ FailedThen(cr, k, "ok")) =>
              /\ k <= cr.retry_attempts
              /\ cr.pc = "done"
              /\ AttemptsThenWaits(cr, k)
              /\ Len(WaitsOf(cr)) = k - 1
              /\ cr.result.kind = "response"
              /\ cr.result.status_code = cr.last_raw.status
              /\ Len(cr.events) = 1
              /\ cr.events[1].event = "webhook_actions_success"
              /\ cr.events[1].attempt = k
              /\ cr.events[1].has_status
              /\ cr.events[1].status_code = cr.last_raw.status

\* a call that succeeded on its third attempt, after two waits
C1_Witness ==
    \E c \in CallIds :
        /\ call[c].pc = "done"
        /\ call[c].outcomes = <<"retryable", "retryable", "ok">>
        /\ Len(WaitsOf(call[c])) = 2
        /\ call[c].events[1].attempt = 3

(* C2: an HttpError with a 4xx status other than 429 on attempt k ends the *)
(* call at once: no further request, no wait after it, exactly one event,  *)
(* an error event with error_type http_error, attempt = k and the status,  *)
(* and the call fails.                                                     *)
C2_NonRetryableAborts ==
    \A c \in CallIds :
        LET cr == call[c]
            k == Len(cr.outcomes)
        IN FailedThen(cr, k, "fatal") =>
              /\ cr.pc = "failed"
              /\ cr.result.kind = "raised"
              /\ AttemptsThenWaits(cr, k)
              /\ Len(cr.events) = 1
              /\ cr.events[1].event = "webhook_actions_error"
              /\ cr.events[1].error_type = "http_error"
              /\ cr.events[1].attempt = k
              /\ cr.events[1].has_status
              /\ cr.events[1].status_code = cr.last_raw.status

\* a 404 on the second of three attempts ended the call
C2_Witness ==
    \E c \in CallIds :
        /\ call[c].outcomes = <<"retryable", "fatal">>
        /\ call[c].retry_attempts = 3
        /\ call[c].last_raw.status = 404
        /\ call[c].pc = "failed"
        /\ Len(AttemptsOf(call[c])) = 2

(* C3: when all N = retry_attempts >= 1 attempts fail with a retryable     *)
(* error, execute has issued exactly N requests and fired exactly one      *)
(* event: an error event with attempt = N and the error type and message   *)
(* of the N-th failure; the call fails with that message.                  *)
C3_ExhaustionReportsLast ==
    \A c \in CallIds :
        LET cr == call[c]
            N == cr.retry_attempts
        IN (N >= 1 /\ FailedThen(cr, N, "retryable")) =>
              /\ cr.pc = "failed"
              /\ AttemptsThenWaits(cr, N)
              /\ Len(AttemptsOf(cr)) = N
              /\ Len(cr.events) = 1
              /\ cr.events[1].event = "webhook_actions_error"
              /\ cr.events[1].attempt = N
              /\ cr.events[1].error_type = FailureType(cr.last_raw)
              /\ cr.events[1].error_message = FailureMessage(cr.last_raw)
              /\ cr.result.kind = "raised"
              /\ cr.result.message = FailureMessage(cr.last_raw)

\* three attempts failed, the last one differently from the first: the
\* event reports the last
C3_Witness ==
    \E c \in CallIds :
        /\ call[c].outcomes = <<"retryable", "retryable", "retryable">>
        /\ call[c].pc = "failed"
        /\ call[c].last_raw.kind = "response"
        /\ call[c].last_raw.status = 429
        /\ call[c].events[1].error_type = "http_error"
        /\ call[c].events[1].attempt = 3

(* C4: when a service call has ended, whatever its outcome (success, HTTP  *)
(* error, exhaustion, template failure, unknown webhook id), exactly one   *)
(* event has been fired for it: a success event if and only if a response  *)
(* record was returned, an error event if and only if the call failed.     *)
C4_OneEventPerOutcome ==
    \A c \in CallIds :
        LET cr == call[c]
        IN cr.pc \in {"done", "failed"} =>
              /\ Len(cr.events) = 1
              /\ (cr.events[1].event = "webhook_actions_success")
                    <=> (cr.result.kind = "response")
              /\ (cr.events[1].event = "webhook_actions_error")
                    <=> (cr.result.kind = "raised")

(* C5: the event bus raising never changes the caller's result: once a    *)
(* _make_request has returned a record the call is over and returns that   *)
(* record, and no further request is issued, even when firing the success  *)
(* event raised.                                                           *)
C5_SinkFailureHarmless ==
    \A c \in CallIds :
        LET cr == call[c]
        IN \A i \in 1..Len(cr.outcomes) :
              cr.outcomes[i] = "ok" =>
                 /\ i = Len(cr.outcomes)
                 /\ Len(AttemptsOf(cr)) = i
                 /\ cr.pc = "done"
                 /\ cr.result.kind = "response"
                 /\ cr.result.status_code = cr.last_raw.status

\* C5, the error side: a call that fails hands the caller its own failure,
\* not the bus's, even when firing the error event raised
C5_FailureSurvivesSinkFailure ==
    \A c \in CallIds :
        call[c].pc = "failed" =>
            /\ call[c].result.kind = "raised"
            /\ call[c].result.message # [text |-> "event bus error", status |-> 0]

(* C6 as claimed: the renderer runs once per request, and every request    *)
(* carries the url as rendered against the context at the time it is sent. *)
C6_FreshRenderPerAttempt ==
    \A c \in CallIds :
        LET cr == call[c]
        IN /\ cr.pc = "request" => cr.renders = Len(AttemptsOf(cr))
           /\ \A i \in 1..Len(cr.log) :
                 cr.log[i].what = "attempt" => cr.log[i].url = cr.log[i].fresh

(* C6 amended: execute renders once per call, before the first request:    *)
(* every request of the call carries the url as rendered against the       *)
(* context at the start of the call, whatever the context has become.      *)
C6_RenderedOncePerCall ==
    \A c \in CallIds :
        LET cr == call[c]
        IN /\ cr.renders <= 1
           /\ \A i \in 1..Len(cr.log) :
                 cr.log[i].what = "attempt" =>
                    /\ cr.renders = 1
                    /\ cr.log[i].url = cr.log[1].fresh
                    /\ cr.log[i].url = cr.log[1].url

\* a second request went out after the context changed, with the old url
C6_Witness ==
    \E c \in CallIds :
        \E i \in 2..Len(call[c].log) :
            /\ call[c].log[i].what = "attempt"
            /\ call[c].log[i].url # call[c].log[i].fresh
            /\ call[c].log[i].url = call[c].log[1].fresh

\* the latest answer was a 2xx response, and what it says of its size
Answered2xx(cr) ==
    /\ Len(cr.outcomes) >= 1
    /\ cr.last_raw.kind = "response"
    /\ cr.last_raw.status < 400

DeclaredOver(o) ==
    /\ o.content_length.present
    /\ o.content_length.numeric
    /\ o.content_length.n > MAX_RESPONSE_SIZE

RECURSIVE SumWidths(_)
SumWidths(tail) == IF tail = <<>> THEN 0 ELSE Head(tail) + SumWidths(Tail(tail))

\* the UTF-8 length of a text, counted from its characters
Utf8Len(text) == text.run + SumWidths(text.tail)

BodyOver(o) == Utf8Len(o.text) > MAX_RESPONSE_SIZE

(* C7 as claimed: a 2xx response over the cap, by its Content-Length or by *)
(* its body, never fails the attempt: the call ends there and returns a    *)
(* record whose body fits the cap.                                         *)
C7_OversizeNeverRaised ==
    \A c \in CallIds :
        LET cr == call[c]
        IN (Answered2xx(cr) /\ (DeclaredOver(cr.last_raw) \/ BodyOver(cr.last_raw))) =>
              /\ cr.pc = "done"
              /\ cr.result.kind = "response"
              /\ Utf8Len(cr.result.body) <= MAX_RESPONSE_SIZE

(* C7 amended: a 2xx response whose Content-Length does not declare more   *)
(* than the cap always succeeds, its body truncated when it is over the    *)
(* cap; a 2xx response whose Content-Length declares more than the cap     *)
(* fails the attempt as a retryable connection_error: execute waits and    *)
(* retries, or fails the call when it was the last attempt.                *)
C7_OnlyDeclaredOversizeRaises ==
    \A c \in CallIds :
        LET cr == call[c]
            k == Len(cr.outcomes)
        IN Answered2xx(cr) =>
              IF DeclaredOver(cr.last_raw)
              THEN /\ cr.outcomes[k] = "retryable"
                   /\ cr.last_error.type = "connection_error"
                   /\ IF k < cr.retry_attempts
                      THEN cr.pc \in {"sleep", "request"}
                      ELSE /\ cr.pc = "failed"
                           /\ cr.events[1].error_type = "connection_error"
              ELSE /\ cr.outcomes[k] = "ok"
                   /\ cr.pc = "done"
                   /\ cr.result.kind = "response"
                   /\ Utf8Len(cr.result.body) <= MAX_RESPONSE_SIZE

\* a declared oversize failed attempt 1, and attempt 2 returned an over-cap
\* body, truncated
C7_Witness ==
    \E c \in CallIds :
        /\ call[c].outcomes = <<"retryable", "ok">>
        /\ call[c].last_error.message.text = "Response size exceeds maximum allowed"
        /\ BodyOver(call[c].last_raw)
        /\ call[c].pc = "done"
        /\ call[c].result.body # call[c].last_raw.text

(* C8 as claimed: a body whose UTF-8 encoding is longer than the cap comes *)
(* back with a byte length of exactly the cap, and no body comes back      *)
(* longer than the cap.                                                    *)
C8_TruncatedToExactlyCap ==
    \A c \in CallIds :
        LET cr == call[c]
        IN cr.result.kind = "response" =>
              /\ Utf8Len(cr.result.body) <= MAX_RESPONSE_SIZE
              /\ BodyOver(cr.last_raw) => Utf8Len(cr.result.body) = MAX_RESPONSE_SIZE

\* the longest prefix of whole characters of a text that fits in cap bytes
RECURSIVE FitTail(_, _)
FitTail(tail, room) ==
    IF tail = <<>> \/ Head(tail) > room THEN <<>>
    ELSE <<Head(tail)>> \o FitTail(Tail(tail), room - Head(tail))

WholeCharPrefix(text, cap) ==
    IF text.run >= cap THEN [run |-> cap, tail |-> <<>>]
    ELSE [run |-> text.run, tail |-> FitTail(text.tail, cap - text.run)]

(* C8 amended: a body whose UTF-8 encoding is longer than the cap comes    *)
(* back as its longest prefix of whole characters that fits the cap: its   *)
(* byte length is at most the cap and more than the cap minus 4, short of  *)
(* the cap by the bytes of the character the cut fell in; no body comes    *)
(* back longer than the cap, and a body within the cap comes back whole.   *)
C8_TruncatedToWholeCharacters ==
    \A c \in CallIds :
        LET cr == call[c]
        IN cr.result.kind = "response" =>
              /\ Utf8Len(cr.result.body) <= MAX_RESPONSE_SIZE
              /\ BodyOver(cr.last_raw) =>
                    /\ cr.result.body = WholeCharPrefix(cr.last_raw.text, MAX_RESPONSE_SIZE)
                    /\ Utf8Len(cr.result.body) > MAX_RESPONSE_SIZE - 4
              /\ ~BodyOver(cr.last_raw) => cr.result.body = cr.last_raw.text

\* a body cut inside a 4-byte character came back 3 bytes short of the cap
C8_Witness ==
    \E c \in CallIds :
        /\ call[c].result.kind = "response"
        /\ BodyOver(call[c].last_raw)
        /\ Utf8Len(call[c].result.body) = MAX_RESPONSE_SIZE - 3

\* the ids the declarative list defines
YamlIds == {yaml_config[i].webhook_id : i \in 1..Len(yaml_config)}

(* C9: for an id defined in both sources get_webhook returns the store's   *)
(* record, whatever it holds.                                              *)
C9_StoreRecordWins ==
    \A id \in WebhookIds :
        (id \in DOMAIN data /\ id \in YamlIds) => GetWebhook(id) = data[id]

(* C10: webhook_exists(id), get_webhook(id) returning a definition, and id *)
(* being a key of get_all_webhooks() are equivalent, and then              *)
(* get_webhook(id) = get_all_webhooks()[id].                               *)
C10_ResolverOperationsAgree ==
    \A id \in WebhookIds :
        /\ WebhookExists(id) <=> (GetWebhook(id) # [is_none |-> TRUE])
        /\ WebhookExists(id) <=> (id \in DOMAIN GetAllWebhooks)
        /\ id \in DOMAIN GetAllWebhooks => GetWebhook(id) = GetAllWebhooks[id]

-----------------------------------------------------------------------------
(* C11..C20 *)

\* the call got past the resolver: execute built its request
Built(cr) == cr.pc # "idle" /\ cr.request # NoRequest

\* a headers override as a mapping: None carries no key
OverrideKeys(ov) ==
    IF ov.headers_override = NoneDict THEN {} ELSE DOMAIN ov.headers_override

\* C11: the headers of the request execute builds are the shallow merge of
\* the definition's headers and the headers override: every override key
\* carries the override's value, every definition key the override lacks
\* keeps the definition's value, and there is no other key.
C11_HeadersShallowMerge ==
    \A c \in CallIds :
        Built(call[c]) =>
            LET base == IF "headers" \in DOMAIN call[c].config
                        THEN call[c].config["headers"] ELSE EmptyDict
                over == call[c].overrides.headers_override
                keys == OverrideKeys(call[c].overrides)
                headers == call[c].request.headers
            IN /\ DOMAIN headers = DOMAIN base \cup keys
               /\ \A key \in keys : headers[key] = over[key]
               /\ \A key \in DOMAIN base \ keys : headers[key] = base[key]

\* the example of the specification: {A:1, B:2} with {B:9, C:3}
C11_Witness ==
    \E c \in CallIds :
        /\ call[c].pc = "request"
        /\ "headers" \in DOMAIN call[c].config
        /\ call[c].config["headers"] = [A |-> "1", B |-> "2"]
        /\ call[c].overrides.headers_override = [B |-> "9", C |-> "3"]
        /\ call[c].request.headers = [A |-> "1", B |-> "9", C |-> "3"]
        /\ call[c].headers = [A |-> "1", B |-> "9", C |-> "3"]

\* C12: a url, payload or timeout override the caller supplies is the
\* request's url, payload or timeout, whatever its value (an empty-string
\* url, a timeout of 0, an empty mapping or sequence); the definition's
\* value is used only when the override is not supplied.
C12_OverrideReplaces ==
    \A c \in CallIds :
        Built(call[c]) =>
            LET ov == call[c].overrides
                config == call[c].config
                request == call[c].request
            IN /\ request.url = IF ov.url_override # None THEN ov.url_override
                                ELSE IF "url" \in DOMAIN config THEN config["url"]
                                ELSE None
               /\ request.payload = IF ov.payload_override # PyNone
                                    THEN ov.payload_override
                                    ELSE IF "payload" \in DOMAIN config
                                    THEN config["payload"] ELSE PyNone
               /\ request.timeout = IF ov.timeout_override.given
                                    THEN ov.timeout_override.n
                                    ELSE IF "timeout" \in DOMAIN config
                                    THEN config["timeout"] ELSE DEFAULT_TIMEOUT

\* what rendering may do to a payload while keeping its structure: a null,
\* boolean or number is returned as it is, a string without template or
\* JSON marker too, a sequence keeps its length and a mapping its keys,
\* element by element and key by key
RECURSIVE StructurePreserved(_, _)
StructurePreserved(payload, rendered) ==
    CASE payload.t \in {"none", "bool", "int"} -> rendered = payload
      [] payload.t = "str" -> payload.s \in {"", "text", "body"} => rendered = payload
      [] payload.t = "list" ->
            /\ rendered.t = "list"
            /\ Len(rendered.l) = Len(payload.l)
            /\ \A i \in 1..Len(payload.l) :
                  StructurePreserved(payload.l[i], rendered.l[i])
      [] payload.t = "dict" ->
            /\ rendered.t = "dict"
            /\ DOMAIN rendered.d = DOMAIN payload.d
            /\ \A key \in DOMAIN payload.d :
                  StructurePreserved(payload.d[key], rendered.d[key])

\* C13: _render_payload returns every non-string leaf (null, boolean,
\* number) unchanged and keeps the structure: a sequence renders to a
\* sequence of the same length, element by element in the same order, a
\* mapping to a mapping with exactly the same keys, at every depth.
C13_RenderPayloadPreservesStructure ==
    \A c \in CallIds :
        call[c].pc = "request" =>
            StructurePreserved(call[c].request.payload, call[c].payload)

\* a mapping holding a sequence of a number and a template
C13_Witness ==
    \E c \in CallIds :
        /\ call[c].pc = "request"
        /\ call[c].request.payload = PyDict([k |-> PyList(<<PyInt(7), PyStr("{{ x }}")>>)])
        /\ call[c].payload = PyDict([k |-> PyList(<<PyInt(7), PyStr("on")>>)])

\* every string strictly inside a sequence or mapping payload is still a
\* string after rendering
RECURSIVE NestedStringsStay(_, _)
NestedStringsStay(payload, rendered) ==
    CASE payload.t = "list" ->
            \A i \in 1..Len(payload.l) :
                IF payload.l[i].t = "str" THEN rendered.l[i].t = "str"
                ELSE NestedStringsStay(payload.l[i], rendered.l[i])
      [] payload.t = "dict" ->
            \A key \in DOMAIN payload.d :
                IF payload.d[key].t = "str" THEN rendered.d[key].t = "str"
                ELSE NestedStringsStay(payload.d[key], rendered.d[key])
      [] OTHER -> TRUE

\* C14 as stated: only a string that is the whole payload is reinterpreted
\* as JSON; a string leaf inside a mapping or sequence payload stays a
\* string after rendering, whatever its rendered text.
C14_OnlyWholePayloadReinterpreted ==
    \A c \in CallIds :
        call[c].pc = "request" =>
            NestedStringsStay(call[c].request.payload, call[c].payload)

\* what a string of the payload becomes: the parsed structure when its
\* rendered text is the JSON text [1] or {"k": 1}, a string otherwise
StringReinterpreted(s, rendered) ==
    IF s \in {"[1]", "{{ j }}"} THEN rendered = PyList(<<PyInt(1)>>)
    ELSE IF s = "{\"k\": 1}" THEN rendered = PyDict([k |-> PyInt(1)])
    ELSE IF s = "{not json" THEN rendered = PyStr("{not json")
    ELSE rendered.t = "str"

RECURSIVE EveryStringReinterpreted(_, _)
EveryStringReinterpreted(payload, rendered) ==
    CASE payload.t = "str" -> StringReinterpreted(payload.s, rendered)
      [] payload.t = "list" ->
            \A i \in 1..Len(payload.l) :
                EveryStringReinterpreted(payload.l[i], rendered.l[i])
      [] payload.t = "dict" ->
            \A key \in DOMAIN payload.d :
                EveryStringReinterpreted(payload.d[key], rendered.d[key])
      [] OTHER -> TRUE

\* C14 amended: every string of the payload, the whole payload or a leaf
\* at any depth, whose rendered text starts with { or [ and parses as
\* JSON is replaced by the parsed structure; a string whose rendered text
\* does not start so, or does not parse, stays the rendered string.
C14_StringsReinterpretedAtEveryDepth ==
    \A c \in CallIds :
        call[c].pc = "request" =>
            EveryStringReinterpreted(call[c].request.payload, call[c].payload)

\* a template inside a sequence renders to the text [1] and is sent as
\* the sequence [1]
C14_Witness ==
    \E c \in CallIds :
        /\ call[c].pc = "request"
        /\ call[c].request.payload = PyList(<<PyStr("{{ j }}"), PyStr("{not json")>>)
        /\ call[c].payload = PyList(<<PyList(<<PyInt(1)>>), PyStr("{not json")>>)

\* C15: a call whose identifier resolves to no definition has failed as
\* NotFound in the step that made it, and nothing of the retry loop has
\* happened: no rendering pass, no request, no wait.
C15_NotFoundFailsImmediately ==
    \A c \in CallIds :
        (call[c].pc # "idle" /\ (call[c].config = NoneDict \/ DOMAIN call[c].config = {})) =>
            /\ call[c].pc = "failed"
            /\ call[c].result.kind = "raised"
            /\ call[c].result.exc = "HomeAssistantError"
            /\ call[c].result.message.text = "not found"
            /\ call[c].renders = 0
            /\ call[c].request = NoRequest
            /\ call[c].log = <<>>
            /\ call[c].outcomes = <<>>

\* the identifier b is called while neither source defines it
C15_Witness ==
    \E c \in CallIds :
        /\ call[c].pc = "failed"
        /\ call[c].requested = "b"
        /\ call[c].config = NoneDict
        /\ call[c].result.message.text = "not found"

\* the session's answer makes the attempt fail: an exception of the
\* session, a status of 400 or more, or a declared size over the cap
IsFailure(o) ==
    \/ o.kind # "response"
    \/ o.status >= 400
    \/ (o.content_length.present /\ o.content_length.numeric
          /\ o.content_length.n > MAX_RESPONSE_SIZE)

\* the failures the specification lists as retryable: ConnectionError,
\* TimeoutError, HttpError with 429 or a status of 500 or more, and
\* whatever is none of the classified errors
IsRetryableFailure(o) ==
    IF o.kind = "response" /\ o.status >= 400
    THEN o.status = 429 \/ o.status >= 500
    ELSE TRUE

\* C16: once attempt k < retry_attempts has failed, attempt k+1 follows
\* (the call is in its wait, or has issued request k+1) exactly when the
\* failure is retryable; otherwise the call has failed with k requests.
C16_NextAttemptIffRetryable ==
    \A c \in CallIds :
        LET cr == call[c]
            k == Len(cr.outcomes)
            issued == Len(AttemptsOf(cr))
        IN (k >= 1 /\ k < cr.retry_attempts /\ IsFailure(cr.last_raw)) =>
              IF IsRetryableFailure(cr.last_raw)
              THEN \/ cr.pc = "sleep" /\ issued = k
                   \/ cr.pc = "request" /\ issued = k + 1
              ELSE cr.pc = "failed" /\ issued = k

\* a 429 on the first attempt is followed by the second request
C16_Witness ==
    \E c \in CallIds :
        /\ Len(call[c].outcomes) = 1
        /\ call[c].last_raw.kind = "response"
        /\ call[c].last_raw.status = 429
        /\ call[c].pc = "request"
        /\ Len(AttemptsOf(call[c])) = 2

\* the k-th wait of the specification: 1, b, b^2, ...
RECURSIVE BackoffSeconds(_, _)
BackoffSeconds(b, k) == IF k <= 1 THEN 1 ELSE b * BackoffSeconds(b, k - 1)

\* C17: the k-th wait of a call comes right after request k, with
\* k < retry_attempts, after a retryable failure, and lasts
\* retry_backoff ** (k-1) seconds; a call that has ended did not wait
\* after its last request; a call waits at most retry_attempts - 1 times.
C17_BackoffWaits ==
    \A c \in CallIds :
        LET cr == call[c]
            waits == WaitsOf(cr)
        IN /\ \A k \in 1..Len(waits) :
                 /\ k < cr.retry_attempts
                 /\ cr.log[2 * k - 1].what = "attempt"
                 /\ cr.log[2 * k - 1].n = k
                 /\ cr.log[2 * k].what = "wait"
                 /\ cr.log[2 * k].n = BackoffSeconds(cr.retry_backoff, k)
           /\ cr.pc = "sleep" =>
                 /\ Len(cr.outcomes) = Len(waits)
                 /\ IsFailure(cr.last_raw)
                 /\ IsRetryableFailure(cr.last_raw)
           /\ cr.pc \in {"done", "failed"} =>
                 (cr.log = <<>> \/ cr.log[Len(cr.log)].what = "attempt")
           /\ cr.retry_attempts >= 1 => Len(waits) <= cr.retry_attempts - 1
           /\ cr.retry_attempts = 0 => waits = <<>>

\* three attempts with base 3: waits of 1 and 3 seconds, none after the
\* third attempt
C17_Witness ==
    \E c \in CallIds :
        /\ call[c].pc = "failed"
        /\ call[c].retry_backoff = 3
        /\ Len(AttemptsOf(call[c])) = 3
        /\ Len(WaitsOf(call[c])) = 2
        /\ WaitsOf(call[c])[1].n = 1
        /\ WaitsOf(call[c])[2].n = 3

\* the payload holds the malformed template, as itself or as a leaf
RECURSIVE HoldsMalformed(_)
HoldsMalformed(payload) ==
    CASE payload.t = "str" -> payload.s = "{{ oops"
      [] payload.t = "list" -> \E i \in 1..Len(payload.l) : HoldsMalformed(payload.l[i])
      [] payload.t = "dict" -> \E key \in DOMAIN payload.d : HoldsMalformed(payload.d[key])
      [] OTHER -> FALSE

\* the request as built carries a template that cannot be rendered
RenderingFails(request) ==
    \/ request.url = "{{ oops"
    \/ \E key \in DOMAIN request.headers : request.headers[key] = "{{ oops"
    \/ HoldsMalformed(request.payload)

\* C18: a call whose url, header value or payload leaf fails to render
\* has failed in the step that made it, with no request sent, no wait,
\* and exactly one event on the bus: an error event of type
\* template_error.
C18_TemplateFailureTerminal ==
    \A c \in CallIds :
        LET cr == call[c]
        IN (Built(cr) /\ RenderingFails(cr.request)) =>
              /\ cr.pc = "failed"
              /\ cr.result.kind = "raised"
              /\ cr.result.exc = "TemplateError"
              /\ cr.log = <<>>
              /\ cr.outcomes = <<>>
              /\ Len(cr.events) = 1
              /\ cr.events[1].event = "webhook_actions_error"
              /\ cr.events[1].error_type = "template_error"

\* a well-formed url and a payload override whose leaf is malformed
C18_Witness ==
    \E c \in CallIds :
        /\ call[c].pc = "failed"
        /\ call[c].request.url = "{{ x }}"
        /\ call[c].request.payload = PyDict([k |-> PyStr("{{ oops")])
        /\ Len(call[c].events) = 1
        /\ call[c].events[1].error_type = "template_error"

\* C19: the attempts of one call are sequential and bounded: the call has
\* one request in flight when it is at its request and none otherwise;
\* requests are numbered 1, 2, ... and between two of them lies a wait,
\* so request k+1 goes out only after request k was answered with a
\* failure and the wait after it elapsed; there are at most
\* retry_attempts requests; a success is the last thing that happened.
C19_AttemptsSequentialAndBounded ==
    \A c \in CallIds :
        LET cr == call[c]
            issued == Len(AttemptsOf(cr))
            answered == Len(cr.outcomes)
        IN /\ issued - answered = IF cr.pc = "request" THEN 1 ELSE 0
           /\ \A i \in 1..Len(cr.log) :
                 IF i % 2 = 1
                 THEN cr.log[i].what = "attempt" /\ cr.log[i].n = (i + 1) \div 2
                 ELSE cr.log[i].what = "wait"
           /\ cr.pc = "sleep" => (cr.log # <<>> /\ cr.log[Len(cr.log)].what = "wait")
           /\ cr.pc = "request" => cr.log[Len(cr.log)].what = "attempt"
           /\ \A k \in 1..answered : (k < issued => cr.outcomes[k] = "retryable")
           /\ issued <= cr.retry_attempts
           /\ \A k \in 1..answered :
                 cr.outcomes[k] = "ok" => (k = answered /\ issued = k /\ cr.pc = "done")

\* the third and last request of a call is in flight, after two failed
\* requests and two waits
C19_Witness ==
    \E c \in CallIds :
        /\ call[c].pc = "request"
        /\ call[c].retry_attempts = 3
        /\ Len(AttemptsOf(call[c])) = 3
        /\ Len(WaitsOf(call[c])) = 2
        /\ call[c].outcomes = <<"retryable", "retryable">>

\* while another call is suspended in its wait, this call can take its
\* next step: start, have its request answered in any way, or leave its
\* own wait
NotStalledBy(sleeper, c) ==
    call[sleeper].pc = "sleep" =>
        /\ call[c].pc = "idle" =>
              \A id \in WebhookIds : ENABLED HandleWebhookCall(c, id, NoOverrides)
        /\ call[c].pc = "request" =>
              \A o \in ConcurrentOutcomes : ENABLED TransportResponds(c, o)
        /\ call[c].pc = "sleep" => ENABLED SleepElapses(c)

\* the call's loop index, last-error slot and events are those of its own
\* requests and their answers
OwnOutcomesOnly(cr) ==
    LET answered == Len(cr.outcomes)
    IN /\ cr.pc = "request" => cr.attempt = answered
       /\ cr.pc = "sleep" => cr.attempt = answered - 1
       /\ (answered >= 1 /\ IsFailure(cr.last_raw)) =>
             /\ cr.last_error.type = FailureType(cr.last_raw)
             /\ cr.last_error.message = FailureMessage(cr.last_raw)
       /\ answered = 0 => cr.last_error.type = ""
       /\ Len(cr.events) = IF cr.pc \in {"done", "failed"} THEN 1 ELSE 0
       /\ \A i \in 1..Len(cr.events) :
             /\ cr.events[i].webhook_id = cr.requested
             /\ cr.events[i].attempt = answered
             /\ cr.events[i].event = "webhook_actions_error" =>
                   cr.events[i].error_type = cr.last_error.type

\* C20: with calls running concurrently on the same or on different
\* identifiers, a call suspended in its backoff wait never keeps another
\* call from its next step, a step of one call leaves every other call's
\* record as it was, and each call's loop index, last-error slot and
\* events follow from its own requests and answers.
C20_WaitDoesNotStallOthers ==
    /\ [](\A c \in CallIds :
            /\ OwnOutcomesOnly(call[c])
            /\ \A sleeper \in CallIds \ {c} : NotStalledBy(sleeper, c))
    /\ [][\A c \in CallIds :
            call'[c] # call[c] => \A other \in CallIds \ {c} : call'[other] = call[other]]_vars

\* call 1 is still in its first wait while call 2, on the same
\* identifier, has made its three attempts and failed
C20_Witness ==
    /\ call[1].pc = "sleep"
    /\ Len(WaitsOf(call[1])) = 1
    /\ call[2].pc = "failed"
    /\ call[2].requested = call[1].requested
    /\ Len(AttemptsOf(call[2])) = 3

-----------------------------------------------------------------------------
(* C21..C27 *)

\* C21: the status is checked before the body is handled: a call whose
\* latest answer has a status of 400 or more holds an http_error with
\* that status, whatever size the answer declares, and no response
\* record; every response record returned and every success event fired
\* carries the status of the answer, which is below 400.
C21_StatusCheckedFirst ==
    \A c \in CallIds :
        LET cr == call[c]
        IN /\ (Len(cr.outcomes) >= 1 /\ cr.last_raw.kind = "response"
                 /\ cr.last_raw.status >= 400) =>
                 /\ cr.last_error.type = "http_error"
                 /\ cr.last_error.message = [text |-> "HTTP", status |-> cr.last_raw.status]
                 /\ cr.result.kind # "response"
           /\ cr.result.kind = "response" =>
                 /\ cr.result.status_code < 400
                 /\ cr.result.status_code = cr.last_raw.status
           /\ \A i \in 1..Len(cr.events) :
                 cr.events[i].event = "webhook_actions_success" =>
                    /\ cr.events[i].status_code < 400
                    /\ cr.events[i].status_code = cr.last_raw.status

\* a 404 that declares a size over the cap ended the call as an
\* http_error
C21_Witness ==
    \E c \in CallIds :
        /\ call[c].pc = "failed"
        /\ call[c].last_raw.status = 404
        /\ call[c].last_raw.content_length.present
        /\ call[c].last_raw.content_length.n > MAX_RESPONSE_SIZE
        /\ call[c].last_error.type = "http_error"
        /\ call[c].result.exc = "ClientResponseError"

\* C22: the latest request of a call carries a body exactly when the
\* method is POST, PUT or PATCH and the rendered payload is not null; the
\* body is the payload as JSON when the payload is a mapping or a
\* sequence and the payload as a raw string otherwise; a GET, DELETE,
\* HEAD or OPTIONS request carries none.
C22_BodyAttachedByMethod ==
    \A c \in CallIds :
        LET cr == call[c]
            method == cr.request.method
            carries == method \in {"POST", "PUT", "PATCH"} /\ cr.payload.t # "none"
        IN cr.pc = "request" =>
              /\ cr.sent.kind # "none" <=> carries
              /\ carries =>
                    /\ cr.sent.kind = "json" <=> cr.payload.t \in {"dict", "list"}
                    /\ cr.sent.kind = "data" <=> cr.payload.t \notin {"dict", "list"}
                    /\ cr.sent.value = cr.payload
              /\ method \in {"GET", "DELETE", "HEAD", "OPTIONS"} => cr.sent.kind = "none"

\* a PUT whose payload string renders to a JSON mapping goes out with a
\* JSON body
C22_Witness ==
    \E c \in CallIds :
        /\ call[c].pc = "request"
        /\ call[c].request.method = "PUT"
        /\ call[c].request.payload = PyStr("{\"k\": 1}")
        /\ call[c].sent = [kind |-> "json", value |-> PyDict([k |-> PyInt(1)])]

\* a DELETE with a payload goes out without a body
C22_WitnessNoBody ==
    \E c \in CallIds :
        /\ call[c].pc = "request"
        /\ call[c].request.method = "DELETE"
        /\ call[c].payload = PyStr("body")
        /\ call[c].sent.kind = "none"

\* C23: a step of a service call leaves both sources of definitions as
\* they were, so the definition's headers are the stored ones after a
\* call with a headers override and after rendering; a call without
\* overrides builds its headers from the stored definition, whatever
\* other calls for the same identifier carried.
C23_OverridesLeaveDefinition ==
    /\ [][call' # call => (data' = data /\ yaml_config' = yaml_config)]_vars
    /\ [](\A c \in CallIds :
            (Built(call[c]) /\ call[c].requested = "b"
               /\ call[c].overrides.headers_override = NoneDict) =>
                  /\ call[c].request.headers = [A |-> "1", B |-> "2"]
                  /\ call[c].headers = [A |-> "1", B |-> "2"])

\* call 1 for b with a headers override has ended; call 2 for b without
\* overrides is at its first request with the stored headers
C23_Witness ==
    /\ call[1].requested = "b"
    /\ call[1].pc \in {"done", "failed"}
    /\ call[1].request.headers = [A |-> "1", B |-> "9", C |-> "3"]
    /\ call[2].requested = "b"
    /\ call[2].pc = "request"
    /\ Len(call[2].log) = 1
    /\ call[2].overrides = NoOverrides
    /\ call[2].request.headers = [A |-> "1", B |-> "2"]
    /\ data["b"]["headers"] = [A |-> "1", B |-> "2"]

\* C24: when no add or remove awaits its save, the persisted content equals
\* the in-memory mapping; an add leaves exactly the given record under its
\* id, a remove leaves no record under it, and every change of the mapping
\* requests a save.
Quiescent == saving = NoSaving

C24_PersistedEqualsMemory ==
    /\ [](Quiescent => persisted = data)
    /\ [](last_op.kind = "add" =>
            last_op.id \in DOMAIN data /\ data[last_op.id] = last_op.config)
    /\ [](last_op.kind = "remove" => last_op.id \notin DOMAIN data)
    /\ [][data' # data => saving'.waiting = saving.waiting + 1]_vars

\* the record of b was replaced by another while a is stored too, and every
\* save has returned
C24_Witness ==
    /\ Quiescent
    /\ last_op.kind = "add" /\ last_op.id = "b" /\ ~last_op.fresh
    /\ last_op.config = [webhook_id |-> "b", url |-> "{{ x }}", retry_attempts |-> 0]
    /\ persisted = data
    /\ DOMAIN data = {"a", "b"}

\* C24 as stated: at the return of every add or remove the persisted content
\* equals the in-memory mapping, whatever else is in flight
C24_PersistedEqualsMemoryAtReturn ==
    [][(saving.writing = 1 /\ saving'.writing = 0) => persisted' = data']_vars

\* C25: an add of an id the store does not hold, followed by the remove of
\* that id, leaves get_all_webhooks() and every get_webhook as before the
\* add, the declarative definition of the id included; the add alone and the
\* remove alone leave the definitions of the other ids as they were.
OthersAsBefore ==
    \A k \in WebhookIds \ {last_op.id} :
        /\ GetWebhook(k) = last_op.before.get[k]
        /\ k \in DOMAIN GetAllWebhooks <=> k \in DOMAIN last_op.before.all
        /\ k \in DOMAIN GetAllWebhooks => GetAllWebhooks[k] = last_op.before.all[k]

C25_AddThenRemoveRestores ==
    /\ last_op.kind # "none" => OthersAsBefore
    /\ (last_op.kind = "remove" /\ last_op.fresh) =>
          /\ GetAllWebhooks = last_op.before.all
          /\ \A k \in WebhookIds : GetWebhook(k) = last_op.before.get[k]
          /\ YamlFirst(last_op.id) # NoneDict =>
                /\ GetWebhook(last_op.id) = YamlFirst(last_op.id)
                /\ \E i \in 1..Len(yaml_config) : yaml_config[i] = GetWebhook(last_op.id)

\* id a is declared twice in the list and b is stored; a was added to the
\* store and removed again
C25_Witness ==
    /\ last_op.kind = "remove" /\ last_op.fresh /\ last_op.id = "a"
    /\ Len(yaml_config) = 2
    /\ \A i \in 1..2 : yaml_config[i]["webhook_id"] = "a"
    /\ "b" \in DOMAIN data
    /\ GetWebhook("a") = yaml_config[1]
    /\ GetAllWebhooks["a"] = yaml_config[2]
\* C26: while a call is in flight (a request out, or in a wait) every step,
\* an add or a remove of the store included, leaves the definition the call
\* resolved, the request built from it (url, method, headers, payload,
\* timeout), the rendered url, headers and payload, the body it sends and
\* its retry budget as they were; a step of the store leaves the whole call
\* as it was, and the call's own next step stays possible.
InFlight(cr) == cr.pc \in {"request", "sleep"}

C26_InFlightCallKeepsDefinition ==
    /\ [][\A c \in CallIds : InFlight(call[c]) =>
            /\ call'[c].config = call[c].config
            /\ call'[c].request = call[c].request
            /\ call'[c].url = call[c].url
            /\ call'[c].headers = call[c].headers
            /\ call'[c].payload = call[c].payload
            /\ call'[c].sent = call[c].sent
            /\ call'[c].retry_attempts = call[c].retry_attempts
            /\ call'[c].retry_backoff = call[c].retry_backoff
            /\ \A i \in 1..Len(call'[c].log) :
                  call'[c].log[i].what = "attempt" => call'[c].log[i].url = call[c].url
            /\ (data' # data => call'[c] = call[c])]_vars
    /\ [](\A c \in CallIds :
            /\ call[c].pc = "request" => ENABLED (\E o \in TransportOutcomes : TransportResponds(c, o))
            /\ call[c].pc = "sleep" => ENABLED SleepElapses(c))

\* the call resolved the store's record of b, whose record has since been
\* replaced by one with another url and no attempts; the call went through
\* its first wait and has its second request out, to the url it started with
C26_Witness ==
    /\ call[1].pc = "request"
    /\ call[1].requested = "b"
    /\ call[1].overrides = NoOverrides
    /\ call[1].config = [webhook_id |-> "b", url |-> "http://ui-b",
                         retry_attempts |-> 2, retry_backoff |-> 3]
    /\ "b" \in DOMAIN data
    /\ data["b"] = [webhook_id |-> "b", url |-> "{{ x }}", retry_attempts |-> 0]
    /\ Len(call[1].log) = 3
    /\ call[1].log[3] = [what |-> "attempt", n |-> 2, url |-> "http://ui-b", fresh |-> "http://ui-b"]
    /\ call[1].retry_attempts = 2

\* the same call with the record removed during its wait
C26_WitnessRemoved ==
    /\ call[1].pc = "sleep"
    /\ call[1].requested = "b"
    /\ call[1].config["url"] = "http://ui-b"
    /\ "b" \notin DOMAIN data

\* C27: a call that has ended has either returned a response record or
\* raised a failure, whatever retry_attempts its definition holds.
C27_ReturnsRecordOrRaises ==
    \A c \in CallIds :
        /\ call[c].pc = "done" => call[c].result.kind = "response"
        /\ call[c].pc = "failed" => call[c].result.kind = "raised"
====
